---- MODULE Spec2Model ----
(***************************************************************************)
(* Playback state core of pipeplay-service: the MPVBackend store           *)
(* (src/mpv_backend.py), the PipePlayPlayer commands (src/media_player.py) *)
(* and the volume front-ends (src/api_server.py, src/main.py).             *)
(*                                                                         *)
(* Two threads act on the store.  The asyncio thread runs one command at   *)
(* a time; `pc` is its position.  The engine (mpv) thread delivers the     *)
(* observed-property callbacks; `pending` is its FIFO of events not yet    *)
(* delivered.  A command is split into several actions exactly where the   *)
(* store is written before and after an engine call (play_media), since a  *)
(* callback may run in between; elsewhere the callbacks commute with the   *)
(* engine call of the command and the handler is one action.               *)
(*                                                                         *)
(* Volumes are counted in tenths: 1.0 is FullVolume, 0.3 is 3, 1.5 is 15.  *)
(*                                                                         *)
(* Spec is the program with every command.  SpecTasks adds the calls of    *)
(* async_play_media that wait for metadata and a terminate() that raises;  *)
(* SpecStatus adds the status read, field by field, and keeps the history  *)
(* of the store.  A call waiting for metadata has written nothing yet and  *)
(* acts, once resumed, as a call issued at that moment; a status read      *)
(* writes nothing; a terminate() that raised leaves the backend as it was. *)
(***************************************************************************)
EXTENDS Integers, Sequences, FiniteSets, TLC

VARIABLES
    mpv_player,      \* MPVBackend._mpv_player: "None" or "live"
    volume,          \* MPVBackend._volume (tenths)
    muted,           \* MPVBackend._muted
    state,           \* MPVBackend._state
    current_media,   \* MPVBackend._current_media
    position,        \* MPVBackend._position
    duration,        \* MPVBackend._duration
    media_title,     \* PipePlayPlayer._media_title/_media_artist/_media_album
    enginePause,     \* the engine's pause property
    engineMedia,     \* the item the engine has loaded
    pending,         \* property-change events the engine has not delivered yet
    added,           \* async_added_to_hass has run (the framework calls it once)
    pc,              \* position of the asyncio thread inside a command
    last,            \* the step just taken: operation, arguments, outcome
    waiting,         \* async_play_media calls suspended at the metadata await
    overlap,         \* a play_media call has started while another was in flight
    terminate_calls, \* how often mpv.terminate() has been invoked
    lock,            \* MPVBackend._lock: "free" or the thread that holds it
    th,              \* per thread, the statements of the handler it runs
    service,         \* PipePlayService and the main() that drives it
    config,          \* DEFAULT_CONFIG's dictionaries, a Config, its file
    recording,       \* whether `existed` is kept (fixed by the initial state)
    existed          \* the snapshots the store has held so far

vars == <<mpv_player, volume, muted, state, current_media, position, duration,
          media_title, enginePause, engineMedia, pending, added, pc, last,
          waiting, overlap, terminate_calls, lock, th, service, config,
          recording, existed>>

\* The six fields of the store (PlayerSnapshot).
Store == <<state, current_media, position, duration, volume, muted>>

\* What a call on the engine can change.
Engine == <<enginePause, engineMedia, pending>>

\* What a status read returns (src/api_server.py:82-89, src/main.py:155-162).
Snapshot == <<state, volume, muted, position, duration>>

\* The history of the store is extended by every step, when it is kept.
Recorded ==
    /\ recording' = recording
    /\ existed' = IF recording THEN existed \cup {Snapshot'} ELSE existed

----------------------------------------------------------------------------
\* Bounds and input sets

MaxPending == 2

\* how often terminate() is followed while it keeps raising
MaxTerminate == 2
FullVolume == 10

\* DEFAULT_CONFIG["audio"]["default_volume"], 0.5
DefaultVolume == 5

None == "None"
Locators == {"A", "B"}
\* seek targets, and the positions and lengths the engine reports (seconds)
SeekTargets == {1}
Reported == {1}
VolumeInputs == {-1, 0, 3, FullVolume + 1}

\* 0 <= level <= 1
InRange(level) == 0 <= level /\ level <= FullVolume

Some(v) == <<v>>
NoValue == <<>>

Event(kind, value) == [kind |-> kind, value |-> value]

Ready == [at |-> "ready"]

\* the event loop thread and the engine's event thread
Threads == {"loop", "engine"}

\* a thread that is in no handler
NoCode == [code |-> <<>>, at |-> 1]

Room(n) == Len(pending) + n <= MaxPending

\* Config (src/config.py).  A dictionary is an object: DEFAULT_CONFIG["api"]
\* is a reference to the nested dictionary "default_api" of the heap, and a
\* Config holds in _config a top-level dictionary of its own whose "api" is
\* again a reference.  Keys in dot notation are the sequences split('.')
\* makes of them.

DefaultName == "PipePlay Player"
DefaultPort == 8080
Names == {DefaultName, "Kitchen", "Hall"}
Ports == {DefaultPort, 9090, 9091}
DefaultHost == "0.0.0.0"
Hosts == {DefaultHost, "127.0.0.1"}
Keys == {<<"name">>, <<"api", "port">>, <<"api", "host">>}

\* the values a key is set to
Values(key) ==
    IF Len(key) = 1 THEN Names
    ELSE IF key[2] = "port" THEN Ports ELSE Hosts

\* lines 11-53: the top-level dictionary, and what the module is loaded with
DEFAULT_CONFIG == [name |-> DefaultName, api |-> "default_api"]

NoConfig == [name |-> "none", api |-> "none"]
NoFile == [name |-> "none", api |-> [port |-> 0, host |-> "none"]]

ModuleLoaded ==
    [heap |-> [default_api |-> [port |-> DefaultPort, host |-> DefaultHost]],
     own |-> NoConfig,
     file |-> NoFile]

\* self._config = DEFAULT_CONFIG.copy(), lines 62 and 140: a new top-level
\* dictionary with the values of the old one, references included
copy(c) == [c EXCEPT !.own = DEFAULT_CONFIG]

\* _save_config, lines 94-102: json.dump writes the values
save_config(c) ==
    [c EXCEPT !.file = [name |-> c.own.name, api |-> c.heap[c.own.api]]]

\* _merge_config, lines 86-92, of an override that has a name, an "api"
\* with a port or a host, or several of them: the name is assigned in the
\* top-level dictionary, "api" is a dictionary on both sides and merged in
\* place
merge_config(c, override) ==
    [c EXCEPT !.own.name = IF override.name = NoValue THEN @
                            ELSE override.name[1],
              !.heap[c.own.api].port = IF override.port = NoValue THEN @
                                        ELSE override.port[1],
              !.heap[c.own.api].host = IF override.host = NoValue THEN @
                                        ELSE override.host[1]]

Overrides ==
    {[name |-> n, port |-> q, host |-> h] :
        n \in {NoValue} \cup {Some(x) : x \in Names},
        q \in {NoValue} \cup {Some(x) : x \in Ports},
        h \in {NoValue} \cup {Some(x) : x \in Hosts}}
    \ {[name |-> NoValue, port |-> NoValue, host |-> NoValue]}

\* Config.get, lines 104-114
get(c, key) ==
    IF Len(key) = 1 THEN c.own.name ELSE c.heap[c.own.api][key[2]]

\* Config.set, lines 116-127: walks down keys[:-1], assigns keys[-1], saves
set(c, key, value) ==
    save_config(IF Len(key) = 1
                   THEN [c EXCEPT !.own.name = value]
                   ELSE [c EXCEPT !.heap[c.own.api][key[2]] = value])

\* Config.update, lines 133-136
update(c, updates) == save_config(merge_config(c, updates))

\* Config.reset_to_defaults, lines 138-142
reset_to_defaults(c) == save_config(copy(c))

\* Config.__init__ and _load_config, lines 59-84: the file is merged into
\* the copy when it exists and written when it does not
load_config(c) ==
    IF c.file = NoFile
       THEN save_config(copy(c))
       ELSE merge_config(copy(c), [name |-> Some(c.file.name),
                                   port |-> Some(c.file.api.port),
                                   host |-> Some(c.file.api.host)])

\* what the package ships for a key
Shipped(key) ==
    IF Len(key) = 1 THEN DefaultName
    ELSE IF key[2] = "port" THEN DefaultPort ELSE DefaultHost

AtDefaults == \A key \in Keys : get(config, key) = Shipped(key)

\* PipePlayService.__init__ (src/main.py:24-34): no component yet, not
\* running; main() has parsed its arguments and is about to call start()
Constructed ==
    [at |-> "start", mode |-> "none", running |-> FALSE,
     media_player |-> "none", api_server |-> "none",
     zeroconf_service |-> "none", ha_integration |-> "none"]

----------------------------------------------------------------------------
\* Initial state: MPVBackend.__init__ and PipePlayPlayer.__init__

Init ==
    /\ mpv_player = None
    /\ volume = FullVolume
    /\ muted = FALSE
    /\ state = "idle"
    /\ current_media = None
    /\ position = 0
    /\ duration = 0
    /\ media_title = None
    /\ enginePause = FALSE
    /\ engineMedia = None
    /\ pending = <<>>
    /\ added = FALSE
    /\ pc = Ready
    /\ last = [op |-> "init"]
    /\ waiting = {}
    /\ overlap = FALSE
    /\ terminate_calls = 0
    /\ lock = "free"
    /\ th = [t \in Threads |-> NoCode]
    /\ service = Constructed
    /\ config = ModuleLoaded
    /\ recording = FALSE
    /\ existed = {}

\* the same program, observed with the history of its store
InitRecording ==
    /\ mpv_player = None
    /\ volume = FullVolume
    /\ muted = FALSE
    /\ state = "idle"
    /\ current_media = None
    /\ position = 0
    /\ duration = 0
    /\ media_title = None
    /\ enginePause = FALSE
    /\ engineMedia = None
    /\ pending = <<>>
    /\ added = FALSE
    /\ pc = Ready
    /\ last = [op |-> "init"]
    /\ waiting = {}
    /\ overlap = FALSE
    /\ terminate_calls = 0
    /\ lock = "free"
    /\ th = [t \in Threads |-> NoCode]
    /\ service = Constructed
    /\ config = ModuleLoaded
    /\ recording = TRUE
    /\ existed = {Snapshot}

----------------------------------------------------------------------------
\* The engine (mpv), as the backend drives and observes it.  The pause
\* property persists across loads and is reported only when it changes;
\* time-pos, duration and eof-reached are reported while an item is loaded.

Emit(e) == pending' = Append(pending, e)

\* mpv.pause = flag  (src/mpv_backend.py:112, :118)
EngineSetPause(flag) ==
    /\ enginePause' = flag
    /\ IF enginePause # flag
          THEN Emit(Event("pause", Some(flag)))
          ELSE UNCHANGED pending
    /\ UNCHANGED engineMedia

\* mpv.play(url)  (src/mpv_backend.py:99): the item is loaded, eof-reached is reset
EnginePlay(url) ==
    /\ engineMedia' = url
    /\ Emit(Event("eof-reached", Some(FALSE)))
    /\ UNCHANGED enginePause

\* mpv.stop()  (src/mpv_backend.py:124): the item is unloaded, time-pos becomes unavailable
EngineStop ==
    /\ engineMedia' = None
    /\ IF engineMedia # None
          THEN Emit(Event("time-pos", NoValue))
          ELSE UNCHANGED pending
    /\ UNCHANGED enginePause

\* mpv.seek(position, reference='absolute')  (src/mpv_backend.py:163)
EngineSeek(p) ==
    /\ IF engineMedia # None
          THEN Emit(Event("time-pos", Some(p)))
          ELSE UNCHANGED pending
    /\ UNCHANGED <<enginePause, engineMedia>>

\* The engine thread, on its own: playback advances, the length becomes
\* known, the item ends.
EngineReportsPosition ==
    /\ mpv_player # None /\ engineMedia # None /\ ~enginePause /\ Room(1)
    /\ \E p \in Reported : Emit(Event("time-pos", Some(p)))
    /\ last' = [op |-> "engine"]
    /\ UNCHANGED <<mpv_player, volume, muted, state, current_media, position,
                   duration, media_title, enginePause, engineMedia, added, pc>>
    /\ UNCHANGED <<waiting, overlap, terminate_calls>>
    /\ UNCHANGED <<lock, th, service, config>>
    /\ Recorded

EngineReportsDuration ==
    /\ mpv_player # None /\ engineMedia # None /\ Room(1)
    /\ \E d \in Reported : Emit(Event("duration", Some(d)))
    /\ last' = [op |-> "engine"]
    /\ UNCHANGED <<mpv_player, volume, muted, state, current_media, position,
                   duration, media_title, enginePause, engineMedia, added, pc>>
    /\ UNCHANGED <<waiting, overlap, terminate_calls>>
    /\ UNCHANGED <<lock, th, service, config>>
    /\ Recorded

EngineReachesEof ==
    /\ mpv_player # None /\ engineMedia # None /\ Room(1)
    /\ engineMedia' = None
    /\ Emit(Event("eof-reached", Some(TRUE)))
    /\ last' = [op |-> "engine"]
    /\ UNCHANGED <<mpv_player, volume, muted, state, current_media, position,
                   duration, media_title, enginePause, added, pc>>
    /\ UNCHANGED <<waiting, overlap, terminate_calls>>
    /\ UNCHANGED <<lock, th, service, config>>
    /\ Recorded

----------------------------------------------------------------------------
\* The observers of src/mpv_backend.py:60-90, run on the engine thread.

on_position_change(value) ==
    /\ position' = IF value # NoValue THEN value[1] ELSE position
    /\ UNCHANGED <<state, current_media, duration, volume, muted>>

\* the position handler's assignment pasted into the duration handler
on_duration_change_writes_position(value) ==
    /\ position' = IF value # NoValue THEN value[1] ELSE position
    /\ UNCHANGED <<state, current_media, duration, volume, muted>>

on_duration_change(value) ==
    /\ duration' = IF value # NoValue THEN value[1] ELSE duration
    /\ UNCHANGED <<state, current_media, position, volume, muted>>

on_pause_change(value) ==
    /\ state' = IF value = Some(TRUE) THEN "paused"
                ELSE IF current_media # None THEN "playing"
                ELSE state
    /\ UNCHANGED <<current_media, position, duration, volume, muted>>

\* end of file resets the state but keeps the media reference
on_eof_keeps_media(value) ==
    /\ IF value = Some(TRUE)
          THEN /\ state' = "idle"
               /\ position' = 0
          ELSE UNCHANGED <<state, position>>
    /\ UNCHANGED <<current_media, duration, volume, muted>>

on_eof(value) ==
    /\ IF value = Some(TRUE)
          THEN /\ state' = "idle"
               /\ current_media' = None
               /\ position' = 0
          ELSE UNCHANGED <<state, current_media, position>>
    /\ UNCHANGED <<duration, volume, muted>>

\* _notify_state_change, lines 55-58, called by an observer, which runs on
\* the engine thread.  With no subscriber nothing is done.  With one,
\* asyncio.create_task finds no running event loop in that thread and raises
\* RuntimeError, so no task is scheduled; the store has been written before.
notify_state_change == IF added THEN "raised" ELSE "none"

\* whether the observer of this event reaches its _notify_state_change()
Notifies(e) ==
    CASE e.kind = "time-pos" -> e.value # NoValue
      [] e.kind = "duration" -> e.value # NoValue
      [] e.kind = "pause" -> TRUE
      [] e.kind = "eof-reached" -> e.value = Some(TRUE)

Delivered(e) ==
    /\ pending' = Tail(pending)
    /\ last' = [op |-> "callback", kind |-> e.kind, value |-> e.value,
                notify |-> IF Notifies(e) THEN notify_state_change
                           ELSE "none"]
    /\ UNCHANGED <<mpv_player, media_title, enginePause, engineMedia, added, pc>>
    /\ UNCHANGED <<waiting, overlap, terminate_calls>>
    /\ UNCHANGED <<lock, th, service, config>>
    /\ Recorded

PositionChanged ==
    /\ pending # <<>> /\ Head(pending).kind = "time-pos"
    /\ on_position_change(Head(pending).value)
    /\ Delivered(Head(pending))

DurationChanged ==
    /\ pending # <<>> /\ Head(pending).kind = "duration"
    /\ on_duration_change(Head(pending).value)
    /\ Delivered(Head(pending))

PauseChanged ==
    /\ pending # <<>> /\ Head(pending).kind = "pause"
    /\ on_pause_change(Head(pending).value)
    /\ Delivered(Head(pending))

EndOfStream ==
    /\ pending # <<>> /\ Head(pending).kind = "eof-reached"
    /\ on_eof(Head(pending).value)
    /\ Delivered(Head(pending))

----------------------------------------------------------------------------
\* MPVBackend commands (src/mpv_backend.py:92-167).  `fault` is the engine
\* raising inside the call.

\* the store reports buffering until the engine has loaded the item
play_media_begin_buffering(media_url) ==
    /\ current_media' = media_url
    /\ state' = "buffering"
    /\ UNCHANGED <<position, duration, volume, muted>>

\* play_media, lines 95-97: the store is written before the engine is called
play_media_begin(media_url) ==
    /\ current_media' = media_url
    /\ state' = "playing"
    /\ UNCHANGED <<position, duration, volume, muted>>

\* the failure handler drops the media reference but not the state
play_media_except_keeps_state ==
    /\ current_media' = None
    /\ UNCHANGED <<state, position, duration, volume, muted>>

\* the failure handler resets the position as stop() does
play_media_except_resets_position ==
    /\ state' = "idle"
    /\ current_media' = None
    /\ position' = 0
    /\ UNCHANGED <<duration, volume, muted>>

\* play_media, lines 102-107: the handler of a failed engine call
play_media_except ==
    /\ state' = "idle"
    /\ current_media' = None
    /\ UNCHANGED <<position, duration, volume, muted>>

pause ==
    IF mpv_player # None THEN EngineSetPause(TRUE) ELSE UNCHANGED Engine

resume ==
    IF mpv_player # None THEN EngineSetPause(FALSE) ELSE UNCHANGED Engine

\* stop() forgets the length of the item with the item
stop_resets_duration ==
    IF mpv_player # None
       THEN /\ EngineStop
            /\ state' = "idle"
            /\ current_media' = None
            /\ position' = 0
            /\ duration' = 0
            /\ UNCHANGED <<volume, muted>>
       ELSE UNCHANGED <<Engine, Store>>

\* stop, lines 121-129
stop ==
    IF mpv_player # None
       THEN /\ EngineStop
            /\ state' = "idle"
            /\ current_media' = None
            /\ position' = 0
            /\ UNCHANGED <<duration, volume, muted>>
       ELSE UNCHANGED <<Engine, Store>>

\* the value handed to the engine (line 137, 0..100) ends up in the store
set_volume_engine_scale(v, fault) ==
    /\ volume' = IF mpv_player # None /\ fault THEN volume ELSE v * 100
    /\ UNCHANGED <<state, current_media, position, duration, muted>>

\* the store is written before the engine is asked
set_volume_stores_first(v, fault) ==
    /\ volume' = v
    /\ UNCHANGED <<state, current_media, position, duration, muted>>

set_volume(v, fault) ==
    /\ volume' = IF mpv_player # None /\ fault THEN volume ELSE v
    /\ UNCHANGED <<state, current_media, position, duration, muted>>

\* muting is done by turning the stored volume down
set_mute_zeroes_volume(m, fault) ==
    /\ muted' = IF mpv_player # None /\ fault THEN muted ELSE m
    /\ volume' = IF m /\ ~(mpv_player # None /\ fault) THEN 0 ELSE volume
    /\ UNCHANGED <<state, current_media, position, duration>>

set_mute(m, fault) ==
    /\ muted' = IF mpv_player # None /\ fault THEN muted ELSE m
    /\ UNCHANGED <<state, current_media, position, duration, volume>>

seek(p, fault) ==
    IF mpv_player # None /\ current_media # None /\ ~fault
       THEN EngineSeek(p)
       ELSE UNCHANGED Engine

\* The engine can raise only where there is an engine.
Faults == IF mpv_player # None THEN BOOLEAN ELSE {FALSE}

\* What the backend logs for a best-effort command.
Logged(fault) == IF fault THEN "error" ELSE "info"

----------------------------------------------------------------------------
\* Lifecycle (src/media_player.py:56-66, src/mpv_backend.py:27-49, 205-215)

AsyncAddedToHass ==
    /\ pc = Ready /\ ~added
    /\ added' = TRUE
    /\ mpv_player' = "live"
    /\ enginePause' = FALSE
    /\ engineMedia' = None
    /\ pending' = <<>>
    /\ last' = [op |-> "initialize"]
    /\ UNCHANGED <<Store, media_title, pc>>
    /\ UNCHANGED <<waiting, overlap, terminate_calls>>
    /\ UNCHANGED <<lock, th, service, config>>
    /\ Recorded

cleanup ==
    /\ mpv_player' = None
    /\ IF mpv_player # None
          THEN /\ engineMedia' = None /\ pending' = <<>>
               /\ terminate_calls' = terminate_calls + 1
          ELSE UNCHANGED <<engineMedia, pending, terminate_calls>>
    /\ UNCHANGED enginePause

\* lines 208-213 when terminate() raises: the handler logs, and the
\* assignment of None in line 210 is never reached
cleanup_terminate_raises ==
    /\ terminate_calls' = terminate_calls + 1
    /\ UNCHANGED <<mpv_player, Engine>>

AsyncWillRemoveFromHassTerminateRaises ==
    /\ pc = Ready /\ mpv_player # None /\ terminate_calls < MaxTerminate
    /\ cleanup_terminate_raises
    /\ last' = [op |-> "cleanup", res |-> "ok", log |-> "error"]
    /\ UNCHANGED <<Store, media_title, added, pc>>
    /\ UNCHANGED <<waiting, overlap>>
    /\ UNCHANGED <<lock, th, service, config>>
    /\ Recorded

AsyncWillRemoveFromHass ==
    /\ pc = Ready
    /\ cleanup
    /\ last' = [op |-> "cleanup", res |-> "ok", log |-> "info"]
    /\ UNCHANGED <<Store, media_title, added, pc>>
    /\ UNCHANGED <<waiting, overlap>>
    /\ UNCHANGED <<lock, th, service, config>>
    /\ Recorded

----------------------------------------------------------------------------
\* PipePlayPlayer.state (src/media_player.py:77-89): the store's state as
\* the entity reports it, IDLE for a value the mapping does not know

state_mapping ==
    [idle |-> "IDLE", playing |-> "PLAYING", paused |-> "PAUSED",
     buffering |-> "BUFFERING"]

PlayerState ==
    IF state \in DOMAIN state_mapping THEN state_mapping[state] ELSE "IDLE"

\* PipePlayPlayer.media_duration (src/media_player.py:120-124)
media_duration == IF duration > 0 THEN Some(duration) ELSE NoValue

----------------------------------------------------------------------------
\* PipePlayPlayer commands (src/media_player.py:138-200)

\* async_play_media from the assignment of the metadata on, lines 143-159:
\* no await suspends the call between here and the engine call.  pc keeps
\* what the call found, for the comparison with what it leaves.
async_play_media(media_id) ==
    /\ media_title' = media_id
    /\ play_media_begin(media_id)
    /\ pc' = [at |-> "play", url |-> media_id,
              was |-> <<state, current_media>>, title |-> media_title]
    /\ last' = [op |-> "play_media", url |-> media_id, res |-> "running"]
    /\ UNCHANGED <<mpv_player, Engine, added, terminate_calls>>

\* a call that does not wait for metadata: a URL, or a file in the cache,
\* which a locator whose metadata is being extracted is not
AsyncPlayMedia(media_id) ==
    /\ pc = Ready /\ media_id \notin waiting
    /\ async_play_media(media_id)
    /\ overlap' = (overlap \/ waiting # {})
    /\ UNCHANGED waiting
    /\ UNCHANGED <<lock, th, service, config>>
    /\ Recorded

\* src/media_player.py:145, src/metadata_handler.py: a local file that is
\* not in the cache; the call is suspended in run_in_executor before it has
\* written anything
AsyncPlayMediaAwaitsMetadata(media_id) ==
    /\ pc = Ready /\ media_id \notin waiting
    /\ waiting' = waiting \cup {media_id}
    /\ overlap' = (overlap \/ waiting # {})
    /\ last' = [op |-> "play_media", url |-> media_id, res |-> "awaiting"]
    /\ UNCHANGED <<mpv_player, Store, Engine, media_title, added, pc,
                   terminate_calls>>
    /\ UNCHANGED <<lock, th, service, config>>
    /\ Recorded

\* the metadata is there and the event loop resumes the call
AsyncPlayMediaResumes(media_id) ==
    /\ pc = Ready /\ media_id \in waiting
    /\ waiting' = waiting \ {media_id}
    /\ async_play_media(media_id)
    /\ UNCHANGED overlap
    /\ UNCHANGED <<lock, th, service, config>>
    /\ Recorded

\* when a call returns and no other is in flight, the overlap is over
Settled == overlap' = (overlap /\ waiting # {}) /\ UNCHANGED waiting

\* src/mpv_backend.py:99: self._mpv_player.play(media_url) returns or raises;
\* with no engine instance the attribute access raises.
PlayMediaEngineCall ==
    /\ pc.at = "play"
    /\ \/ /\ mpv_player # None /\ Room(1)
          /\ EnginePlay(pc.url)
          /\ pc' = Ready
          /\ last' = [op |-> "play_media", url |-> pc.url, res |-> "ok"]
          /\ Settled
       \/ /\ pc' = [pc EXCEPT !.at = "except"]
          /\ last' = [op |-> "play_media", url |-> pc.url, res |-> "running"]
          /\ UNCHANGED <<Engine, waiting, overlap>>
    /\ UNCHANGED <<mpv_player, Store, media_title, added, terminate_calls>>
    /\ UNCHANGED <<lock, th, service, config>>
    /\ Recorded

PlayMediaExcept ==
    /\ pc.at = "except"
    /\ play_media_except
    /\ pc' = Ready
    /\ last' = [op |-> "play_media", url |-> pc.url, res |-> "raised"]
    /\ Settled
    /\ UNCHANGED <<mpv_player, Engine, media_title, added, terminate_calls>>
    /\ UNCHANGED <<lock, th, service, config>>
    /\ Recorded

\* play() without the check of the observed state
AsyncMediaPlay_unguarded ==
    /\ pc = Ready /\ Room(1)
    /\ resume
    /\ last' = [op |-> "play", res |-> "ok", log |-> "info"]
    /\ UNCHANGED <<mpv_player, Store, media_title, added, pc>>
    /\ UNCHANGED <<waiting, overlap, terminate_calls>>
    /\ UNCHANGED <<lock, th, service, config>>
    /\ Recorded

AsyncMediaPlay ==
    /\ pc = Ready /\ Room(1)
    /\ IF state = "paused"
          THEN resume /\ last' = [op |-> "play", res |-> "ok", log |-> "info"]
          ELSE UNCHANGED Engine
               /\ last' = [op |-> "play", res |-> "ok", log |-> "warning"]
    /\ UNCHANGED <<mpv_player, Store, media_title, added, pc>>
    /\ UNCHANGED <<waiting, overlap, terminate_calls>>
    /\ UNCHANGED <<lock, th, service, config>>
    /\ Recorded

AsyncMediaPause ==
    /\ pc = Ready /\ Room(1)
    /\ pause
    /\ last' = [op |-> "pause", res |-> "ok"]
    /\ UNCHANGED <<mpv_player, Store, media_title, added, pc>>
    /\ UNCHANGED <<waiting, overlap, terminate_calls>>
    /\ UNCHANGED <<lock, th, service, config>>
    /\ Recorded

AsyncMediaStop ==
    /\ pc = Ready /\ Room(1)
    /\ stop
    /\ media_title' = None
    /\ last' = [op |-> "stop", res |-> "ok"]
    /\ UNCHANGED <<mpv_player, added, pc>>
    /\ UNCHANGED <<waiting, overlap, terminate_calls>>
    /\ UNCHANGED <<lock, th, service, config>>
    /\ Recorded

AsyncSetVolumeLevel(v, via) ==
    /\ pc = Ready
    /\ \E fault \in Faults :
          /\ set_volume(v, fault)
          /\ last' = [op |-> "set_volume", via |-> via, v |-> v,
                      res |-> "ok", log |-> Logged(fault)]
    /\ UNCHANGED <<mpv_player, Engine, media_title, added, pc>>
    /\ UNCHANGED <<waiting, overlap, terminate_calls>>
    /\ UNCHANGED <<lock, th, service, config>>
    /\ Recorded

AsyncMuteVolume(m) ==
    /\ pc = Ready
    /\ \E fault \in Faults :
          /\ set_mute(m, fault)
          /\ last' = [op |-> "set_mute", m |-> m, res |-> "ok",
                      log |-> Logged(fault)]
    /\ UNCHANGED <<mpv_player, Engine, media_title, added, pc>>
    /\ UNCHANGED <<waiting, overlap, terminate_calls>>
    /\ UNCHANGED <<lock, th, service, config>>
    /\ Recorded

AsyncMediaSeek(p) ==
    /\ pc = Ready /\ Room(1)
    /\ \E fault \in Faults :
          /\ seek(p, fault)
          /\ last' = [op |-> "seek", p |-> p, res |-> "ok",
                      log |-> Logged(fault /\ current_media # None)]
    /\ UNCHANGED <<mpv_player, Store, media_title, added, pc>>
    /\ UNCHANGED <<waiting, overlap, terminate_calls>>
    /\ UNCHANGED <<lock, th, service, config>>
    /\ Recorded

----------------------------------------------------------------------------
\* The status read (src/api_server.py:82-89, src/main.py:155-162).  The
\* handler reads one property after the other, and each property getter takes
\* the lock for itself (src/mpv_backend.py:169-203).  The handler has no await,
\* so no command runs during a read, but the engine thread does.  Volume and
\* mute, which no callback writes, are read in the step that reads the state.

StatusReadsState ==
    /\ pc = Ready
    /\ pc' = [at |-> "status", got |-> <<state, volume, muted>>]
    /\ last' = [op |-> "status", res |-> "running"]
    /\ UNCHANGED <<mpv_player, Store, Engine, media_title, added>>
    /\ UNCHANGED <<waiting, overlap, terminate_calls>>
    /\ UNCHANGED <<lock, th, service, config>>
    /\ Recorded

StatusReadsPosition ==
    /\ pc.at = "status" /\ Len(pc.got) = 3
    /\ pc' = [pc EXCEPT !.got = Append(pc.got, position)]
    /\ last' = [op |-> "status", res |-> "running"]
    /\ UNCHANGED <<mpv_player, Store, Engine, media_title, added>>
    /\ UNCHANGED <<waiting, overlap, terminate_calls>>
    /\ UNCHANGED <<lock, th, service, config>>
    /\ Recorded

StatusReadsDuration ==
    /\ pc.at = "status" /\ Len(pc.got) = 4
    /\ pc' = Ready
    /\ last' = [op |-> "status", res |-> "ok",
                got |-> Append(pc.got, duration)]
    /\ UNCHANGED <<mpv_player, Store, Engine, media_title, added>>
    /\ UNCHANGED <<waiting, overlap, terminate_calls>>
    /\ UNCHANGED <<lock, th, service, config>>
    /\ Recorded

----------------------------------------------------------------------------
\* The front-ends of the volume command

\* src/api_server.py:130-137: the HTTP handler checks the range itself
HandleCommandVolume(level) ==
    IF ~InRange(level)
       THEN /\ pc = Ready
            /\ last' = [op |-> "set_volume", via |-> "http", v |-> level,
                        res |-> "rejected", log |-> "none"]
            /\ UNCHANGED <<mpv_player, Store, Engine, media_title, added, pc>>
            /\ UNCHANGED <<waiting, overlap, terminate_calls>>
            /\ UNCHANGED <<lock, th, service, config>>
            /\ Recorded
       ELSE AsyncSetVolumeLevel(level, "http")

\* The JSON bodies sent to POST /command: a command name and the one
\* parameter it is read with (media_id, level, muted, position), present or
\* not.  "next" is a name the handler does not know, "" an empty media_id.
Requests ==
    {[command |-> c, arg |-> NoValue] :
        c \in {"play", "pause", "stop", "play_media", "volume", "mute",
               "seek", "next"}}
    \cup {[command |-> "play_media", arg |-> Some(l)] : l \in Locators \cup {""}}
    \cup {[command |-> "volume", arg |-> Some(v)] : v \in VolumeInputs}
    \cup {[command |-> "mute", arg |-> Some(b)] : b \in BOOLEAN}
    \cup {[command |-> "seek", arg |-> Some(p)] : p \in SeekTargets}

\* a 400 response: the handler returns before any call on the media player
BadRequest(data) ==
    /\ pc = Ready
    /\ last' = [op |-> "http", data |-> data, res |-> "rejected"]
    /\ UNCHANGED <<mpv_player, Store, Engine, media_title, added, pc>>
    /\ UNCHANGED <<waiting, overlap, terminate_calls>>
    /\ UNCHANGED <<lock, th, service, config>>
    /\ Recorded

\* the volume branch without the test of the range in line 132
HandleCommand_level_unchecked(data) ==
    CASE data.command = "play" -> AsyncMediaPlay
      [] data.command = "pause" -> AsyncMediaPause
      [] data.command = "stop" -> AsyncMediaStop
      [] data.command = "play_media" ->
            IF data.arg = NoValue \/ data.arg = Some("")
               THEN BadRequest(data)
               ELSE AsyncPlayMedia(data.arg[1])
      [] data.command = "volume" ->
            IF data.arg = NoValue
               THEN BadRequest(data)
               ELSE AsyncSetVolumeLevel(data.arg[1], "http")
      [] data.command = "mute" ->
            IF data.arg = NoValue
               THEN BadRequest(data)
               ELSE AsyncMuteVolume(data.arg[1])
      [] data.command = "seek" ->
            IF data.arg = NoValue
               THEN BadRequest(data)
               ELSE AsyncMediaSeek(data.arg[1])
      [] OTHER -> BadRequest(data)

\* src/api_server.py:103-160, _handle_command with a media player set
HandleCommand(data) ==
    CASE data.command = "play" -> AsyncMediaPlay
      [] data.command = "pause" -> AsyncMediaPause
      [] data.command = "stop" -> AsyncMediaStop
      [] data.command = "play_media" ->
            IF data.arg = NoValue \/ data.arg = Some("")
               THEN BadRequest(data)
               ELSE AsyncPlayMedia(data.arg[1])
      [] data.command = "volume" ->
            IF data.arg = NoValue
               THEN BadRequest(data)
               ELSE HandleCommandVolume(data.arg[1])
      [] data.command = "mute" ->
            IF data.arg = NoValue
               THEN BadRequest(data)
               ELSE AsyncMuteVolume(data.arg[1])
      [] data.command = "seek" ->
            IF data.arg = NoValue
               THEN BadRequest(data)
               ELSE AsyncMediaSeek(data.arg[1])
      [] OTHER -> BadRequest(data)

\* src/main.py:232-238: the console passes float(cmd[1]) on as it is, which
\* is a direct call of PipePlayPlayer.async_set_volume_level
ConsoleVolume(vol) == AsyncSetVolumeLevel(vol, "direct")

----------------------------------------------------------------------------
\* PipePlayService and main() (src/main.py).  service.at is where main() and
\* the start()/stop() it has called stand; the event loop runs other tasks
\* (the HTTP handlers) only while they are suspended at an await that waits.

Modes == {"play", "daemon", "interactive"}

\* zeroconf registration (line 60), the shutdown event (line 99), the MQTT
\* publication of HomeAssistantIntegration.cleanup (line 124)
Suspended == {"registering", "serving", "publishing"}

\* a step of the service leaves the player and its backend alone
PlayerUntouched ==
    /\ UNCHANGED <<mpv_player, Store, Engine, media_title, added, pc>>
    /\ UNCHANGED <<waiting, overlap, terminate_calls, lock, th>>

ServiceStep(step) == last' = [op |-> "service", step |-> step]

\* main.py:192-210 and 38-45: main() calls start(), which creates the media
\* player; nothing awaits its async_added_to_hass
MainStartsService ==
    /\ service.at = "start"
    /\ \E mode \in Modes :
          service' = [service EXCEPT !.mode = mode, !.at = "api",
                                     !.media_player = "created"]
    /\ ServiceStep("player")
    /\ PlayerUntouched
    /\ UNCHANGED config
    /\ Recorded

\* main.py:48-53 and 82-84: the API server, when enabled, is created and
\* started; when its start raises, start() raises
ServiceStartsApi ==
    /\ service.at = "api"
    /\ \/ service' = [service EXCEPT !.at = "ha"]
       \/ service' = [service EXCEPT !.api_server = "started",
                                     !.at = "zeroconf"]
       \/ service' = [service EXCEPT !.api_server = "created",
                                     !.at = "failed"]
    /\ ServiceStep("api")
    /\ PlayerUntouched
    /\ UNCHANGED config
    /\ Recorded

\* main.py:56-60: the Zeroconf service, when enabled, is created and its
\* registration awaited
ServiceStartsZeroconf ==
    /\ service.at = "zeroconf"
    /\ \/ service' = [service EXCEPT !.at = "ha"]
       \/ service' = [service EXCEPT !.zeroconf_service = "created",
                                     !.at = "registering"]
    /\ ServiceStep("zeroconf")
    /\ PlayerUntouched
    /\ UNCHANGED config
    /\ Recorded

\* src/zeroconf_discovery.py:71-75: registered, or the failure logged
ServiceZeroconfRegistered ==
    /\ service.at = "registering"
    /\ pc = Ready
    /\ service' = [service EXCEPT !.zeroconf_service = "started", !.at = "ha"]
    /\ ServiceStep("registered")
    /\ PlayerUntouched
    /\ UNCHANGED config
    /\ Recorded

\* main.py:63-80: the integration helper, with or without an MQTT client;
\* _running = True; start() waits for the shutdown event
ServiceStartsHa ==
    /\ service.at = "ha"
    /\ \E ha \in {"none", "created", "mqtt"} :
          service' = [service EXCEPT !.ha_integration = ha,
                                     !.running = TRUE, !.at = "serving"]
    /\ ServiceStep("running")
    /\ PlayerUntouched
    /\ UNCHANGED config
    /\ Recorded

\* main.py:99-119: the shutdown event is set, _run_service calls stop():
\* _running = False, then the media player's backend is cleaned up
ServiceStops ==
    /\ service.at = "serving"
    /\ pc = Ready
    /\ cleanup
    /\ service' = [service EXCEPT !.running = FALSE, !.at = "stop_ha",
                                  !.media_player = "cleaned"]
    /\ ServiceStep("stop")
    /\ UNCHANGED <<Store, media_title, added, pc>>
    /\ UNCHANGED <<waiting, overlap, lock, th>>
    /\ UNCHANGED config
    /\ Recorded

\* main.py:122-126 and src/discovery.py:116-123: cleanup() returns at once
\* without an MQTT client and publishes "offline" with one
ServiceCleansHa ==
    /\ service.at = "stop_ha"
    /\ service' =
          CASE service.ha_integration = "none" ->
                  [service EXCEPT !.at = "stop_api"]
            [] service.ha_integration = "created" ->
                  [service EXCEPT !.ha_integration = "cleaned",
                                  !.at = "stop_api"]
            [] OTHER -> [service EXCEPT !.at = "publishing"]
    /\ ServiceStep("ha")
    /\ PlayerUntouched
    /\ UNCHANGED config
    /\ Recorded

\* the publication is through, or has failed and is logged
ServiceHaPublished ==
    /\ service.at = "publishing"
    /\ pc = Ready
    /\ service' = [service EXCEPT !.ha_integration = "cleaned",
                                  !.at = "stop_api"]
    /\ ServiceStep("published")
    /\ PlayerUntouched
    /\ UNCHANGED config
    /\ Recorded

\* main.py:129-133: PipePlayAPIServer.stop() closes the site, or raises and
\* the error is logged
ServiceStopsApi ==
    /\ service.at = "stop_api"
    /\ \/ /\ service.api_server = "none"
          /\ service' = [service EXCEPT !.at = "stop_zeroconf"]
       \/ /\ service.api_server # "none"
          /\ \E outcome \in {"stopped", "raised"} :
                service' = [service EXCEPT !.api_server = outcome,
                                           !.at = "stop_zeroconf"]
    /\ ServiceStep("api_stop")
    /\ PlayerUntouched
    /\ UNCHANGED config
    /\ Recorded

\* main.py:136-142: the Zeroconf service is stopped; stop() returns, and
\* with it _run_service and start()
ServiceStopsZeroconf ==
    /\ service.at = "stop_zeroconf"
    /\ service' = [service EXCEPT
                      !.zeroconf_service =
                          IF @ = "none" THEN "none" ELSE "stopped",
                      !.at = "returned"]
    /\ ServiceStep("stop_returns")
    /\ PlayerUntouched
    /\ UNCHANGED config
    /\ Recorded

\* main.py:108-109: stop() called on a service that is not running
ServiceStopNotRunning ==
    /\ service.at \in {"returned", "failed"}
    /\ ~service.running
    /\ pc = Ready
    /\ ServiceStep("stop_skipped")
    /\ UNCHANGED service
    /\ PlayerUntouched
    /\ UNCHANGED config
    /\ Recorded

\* an HTTP command is handled while the server accepts and the event loop
\* is free for it
ServiceHandlesCommand ==
    /\ service.api_server = "started"
    /\ service.at \in Suspended
    /\ \E data \in Requests : HandleCommand(data)

\* main.py:198-199 and 144-147: quick play, once start() has returned
MainQuickPlay ==
    /\ service.at = "returned" /\ service.mode = "play"
    /\ pc = Ready
    /\ service.media_player # "none"
    /\ \E media_url \in Locators : async_play_media(media_url)
    /\ service' = [service EXCEPT !.at = "played"]
    /\ UNCHANGED <<waiting, overlap, lock, th>>
    /\ UNCHANGED config
    /\ Recorded

\* main.py:210-246: the interactive loop runs a console command as long as
\* service._running holds
MainInteractive ==
    /\ service.at = "returned" /\ service.mode = "interactive"
    /\ IF service.running
          THEN \/ \E media_url \in Locators : AsyncPlayMedia(media_url)
               \/ AsyncMediaPause
               \/ AsyncMediaPlay
               \/ AsyncMediaStop
               \/ \E vol \in VolumeInputs : ConsoleVolume(vol)
          ELSE /\ service' = [service EXCEPT !.at = "exit"]
               /\ ServiceStep("exit")
               /\ PlayerUntouched
               /\ UNCHANGED config
               /\ Recorded

\* main.py:199-204 and 250-254: main() returns, or exits after an error
MainExits ==
    /\ \/ service.at = "returned" /\ service.mode = "daemon"
       \/ service.at = "played" /\ pc = Ready
       \/ service.at = "failed"
    /\ service' = [service EXCEPT !.at = "exit"]
    /\ ServiceStep("exit")
    /\ PlayerUntouched
    /\ UNCHANGED config
    /\ Recorded

----------------------------------------------------------------------------
\* The calls on Config a program makes

ConfigUntouched ==
    /\ UNCHANGED <<mpv_player, Store, Engine, media_title, added, pc>>
    /\ UNCHANGED <<waiting, overlap, terminate_calls, lock, th, service>>

ConfigConstructed ==
    /\ config' = load_config(config)
    /\ last' = [op |-> "Config"]
    /\ ConfigUntouched
    /\ Recorded

ConfigSet ==
    /\ config.own # NoConfig
    /\ \E key \in Keys :
          \E value \in Values(key) :
             /\ config' = set(config, key, value)
             /\ last' = [op |-> "set", key |-> key, value |-> value]
    /\ ConfigUntouched
    /\ Recorded

ConfigUpdate ==
    /\ config.own # NoConfig
    /\ \E updates \in Overrides :
          /\ config' = update(config, updates)
          /\ last' = [op |-> "update", updates |-> updates]
    /\ ConfigUntouched
    /\ Recorded

ConfigReset ==
    /\ config.own # NoConfig
    /\ config' = reset_to_defaults(config)
    /\ last' = [op |-> "reset_to_defaults"]
    /\ ConfigUntouched
    /\ Recorded

----------------------------------------------------------------------------
\* MPVBackend statement by statement (src/mpv_backend.py:60-215), for what is
\* done inside and outside `with self._lock`.  A handler is the sequence of
\* its statements on the path its arguments select; `line` is the source line
\* of the statement, Release carries the line of the `with` it closes.

Acquire(n) == [kind |-> "acquire", line |-> n]
Release(n) == [kind |-> "release", line |-> n]
Log(n) == [kind |-> "log", line |-> n]
Notify(n) == [kind |-> "notify", line |-> n]
Return(n) == [kind |-> "return", line |-> n]

\* self._<field> = value; with ifmedia, under `elif self._current_media:`
Assign(n, field, value) ==
    [kind |-> "assign", line |-> n, field |-> field, value |-> value,
     ifmedia |-> FALSE]
AssignIfMedia(n, field, value) ==
    [kind |-> "assign", line |-> n, field |-> field, value |-> value,
     ifmedia |-> TRUE]

\* a read of self._<field>; with onfalse # 0 it is the test of an `if`, and
\* the handler goes on at statement onfalse when the field is None
Read(n, field, onfalse) ==
    [kind |-> "read", line |-> n, field |-> field, onfalse |-> onfalse]

\* a call on self._mpv_player; when it raises the handler goes on at
\* statement onraise (behind the last one when nothing catches)
EngineCall(n, call, onraise) ==
    [kind |-> "engine", line |-> n, call |-> call, onraise |-> onraise]

code_on_position_change(value) ==
    IF value = NoValue THEN <<>>
    ELSE <<Acquire(63), Assign(64, "position", value[1]), Release(63),
           Notify(65)>>

code_on_duration_change(value) ==
    IF value = NoValue THEN <<>>
    ELSE <<Acquire(70), Assign(71, "duration", value[1]), Release(70),
           Notify(72)>>

code_on_pause_change(value) ==
    <<Acquire(76),
      IF value = Some(TRUE) THEN Assign(78, "state", "paused")
                            ELSE AssignIfMedia(80, "state", "playing"),
      Release(76), Notify(81)>>

\* the subscriber is notified before the `with` block is left
code_on_eof_notifies_inside(value) ==
    IF value # Some(TRUE) THEN <<>>
    ELSE <<Acquire(86), Assign(87, "state", "idle"),
           Assign(88, "current_media", None), Assign(89, "position", 0),
           Notify(90), Release(86)>>

code_on_eof(value) ==
    IF value # Some(TRUE) THEN <<>>
    ELSE <<Acquire(86), Assign(87, "state", "idle"),
           Assign(88, "current_media", None), Assign(89, "position", 0),
           Release(86), Notify(90)>>

code_play_media(media_url) ==
    <<Acquire(95), Assign(96, "current_media", media_url),
      Assign(97, "state", "playing"), Release(95),
      EngineCall(99, "play", 8), Log(100), Return(100),
      Log(103), Acquire(104), Assign(105, "state", "idle"),
      Assign(106, "current_media", None), Release(104), Return(107)>>

code_pause ==
    IF mpv_player = None THEN <<>>
    ELSE <<EngineCall(112, "pause", 3), Log(113)>>

code_resume ==
    IF mpv_player = None THEN <<>>
    ELSE <<EngineCall(118, "pause", 3), Log(119)>>

code_stop ==
    IF mpv_player = None THEN <<>>
    ELSE <<EngineCall(124, "stop", 8), Acquire(125),
           Assign(126, "state", "idle"), Assign(127, "current_media", None),
           Assign(128, "position", 0), Release(125), Log(129)>>

code_set_volume(v) ==
    IF mpv_player = None
       THEN <<Acquire(137), Assign(138, "volume", v), Release(137), Log(140)>>
       ELSE <<EngineCall(135, "volume", 7), Acquire(137),
              Assign(138, "volume", v), Release(137), Log(140), Return(140),
              Log(143)>>

code_set_mute(m) ==
    IF mpv_player = None
       THEN <<Acquire(151), Assign(152, "muted", m), Release(151), Log(154)>>
       ELSE <<EngineCall(149, "mute", 7), Acquire(151),
              Assign(152, "muted", m), Release(151), Log(154), Return(154),
              Log(157)>>

code_seek ==
    IF mpv_player = None THEN <<>>
    ELSE <<Read(162, "current_media", 5), EngineCall(163, "seek", 5),
           Log(164), Return(164), Log(167)>>

\* cleanup, lines 205-215; line 210 is self._mpv_player = None
Forget(n) == [kind |-> "forget", line |-> n]

code_cleanup ==
    IF mpv_player = None THEN <<>>
    ELSE <<EngineCall(209, "terminate", 5), Forget(210), Log(212),
           Return(212), Log(215)>>

\* a getter that returns without leaving the `with` block
code_getter_keeps_lock(n, field) == <<Acquire(n), Read(n + 1, field, 0)>>

\* the property getters, lines 169-203
code_getter(n, field) == <<Acquire(n), Read(n + 1, field, 0), Release(n)>>

Getters ==
    {code_getter(172, "state"), code_getter(178, "volume"),
     code_getter(184, "muted"), code_getter(190, "current_media"),
     code_getter(196, "position"), code_getter(202, "duration")}

\* what the event loop thread can be asked to run
Commands ==
    {code_play_media(l) : l \in Locators}
    \cup {code_pause, code_resume, code_stop, code_seek, code_cleanup}
    \cup {code_set_volume(v) : v \in {3}}
    \cup {code_set_mute(m) : m \in BOOLEAN}
    \cup Getters

\* what the engine thread can be asked to run
Callbacks ==
    {code_on_position_change(v) : v \in {NoValue} \cup {Some(p) : p \in Reported}}
    \cup {code_on_duration_change(v) : v \in {NoValue} \cup {Some(d) : d \in Reported}}
    \cup {code_on_pause_change(Some(b)) : b \in BOOLEAN}
    \cup {code_on_eof(Some(b)) : b \in BOOLEAN}

Running(t) == th[t].at <= Len(th[t].code)

\* self._<field> = value
StoreAssign(field, value) ==
    /\ state' = IF field = "state" THEN value ELSE state
    /\ current_media' = IF field = "current_media" THEN value ELSE current_media
    /\ position' = IF field = "position" THEN value ELSE position
    /\ duration' = IF field = "duration" THEN value ELSE duration
    /\ volume' = IF field = "volume" THEN value ELSE volume
    /\ muted' = IF field = "muted" THEN value ELSE muted

FieldIsNone(field) == field = "current_media" /\ current_media = None

\* the handler of thread t goes on at statement n; the event loop is free
\* for the next command when its handler is through
GoOn(t, n) ==
    /\ th' = [th EXCEPT ![t].at = n]
    /\ pc' = IF t = "loop" /\ n > Len(th[t].code) THEN Ready ELSE pc

\* the event loop thread enters one of the handlers in `codes`
BeginCommandFrom(codes) ==
    /\ pc = Ready
    /\ \E code \in codes :
          /\ th' = [th EXCEPT !["loop"] = [code |-> code, at |-> 1]]
          /\ pc' = IF code = <<>> THEN Ready ELSE [at |-> "statements"]
    /\ last' = [op |-> "begin", thread |-> "loop"]
    /\ UNCHANGED <<mpv_player, Store, Engine, media_title, added, lock>>
    /\ UNCHANGED <<waiting, overlap, terminate_calls, service, config>>
    /\ Recorded

BeginCommand == BeginCommandFrom(Commands)

\* every command, getter and cleanup once: one locator, one level, one flag
CommandsOnce ==
    {code_play_media("A"), code_pause, code_resume, code_stop, code_seek,
     code_cleanup, code_set_volume(3), code_set_mute(TRUE)}
    \cup Getters

BeginCommandOnce == BeginCommandFrom(CommandsOnce)

\* the engine's event thread calls the observers one after the other
BeginCallback ==
    /\ mpv_player # None /\ ~Running("engine")
    /\ \E code \in Callbacks :
          th' = [th EXCEPT !["engine"] = [code |-> code, at |-> 1]]
    /\ last' = [op |-> "begin", thread |-> "engine"]
    /\ UNCHANGED <<mpv_player, Store, Engine, media_title, added, pc, lock>>
    /\ UNCHANGED <<waiting, overlap, terminate_calls, service, config>>
    /\ Recorded

\* thread t executes the statement it is at; what a call does inside the
\* engine is left out, the call only returns or raises
Statement(t) ==
    /\ Running(t)
    /\ LET s == th[t].code[th[t].at]
           next == th[t].at + 1
           end == Len(th[t].code) + 1
       IN /\ CASE s.kind = "acquire" ->
                    /\ lock = "free"
                    /\ lock' = t
                    /\ GoOn(t, next)
                    /\ UNCHANGED Store
              [] s.kind = "release" ->
                    /\ lock' = "free"
                    /\ GoOn(t, next)
                    /\ UNCHANGED Store
              [] s.kind = "assign" ->
                    /\ IF s.ifmedia /\ current_media = None
                          THEN UNCHANGED Store
                          ELSE StoreAssign(s.field, s.value)
                    /\ GoOn(t, next)
                    /\ UNCHANGED lock
              [] s.kind = "read" ->
                    /\ GoOn(t, IF s.onfalse # 0 /\ FieldIsNone(s.field)
                                  THEN s.onfalse ELSE next)
                    /\ UNCHANGED <<Store, lock>>
              [] s.kind = "engine" ->
                    /\ \/ mpv_player # None /\ GoOn(t, next)
                       \/ GoOn(t, s.onraise)
                    /\ UNCHANGED <<Store, lock>>
              [] s.kind = "return" ->
                    /\ GoOn(t, end)
                    /\ UNCHANGED <<Store, lock>>
              [] OTHER ->
                    /\ GoOn(t, next)
                    /\ UNCHANGED <<Store, lock>>
          /\ mpv_player' = IF s.kind = "forget" THEN None ELSE mpv_player
          /\ last' = [op |-> "statement", thread |-> t, kind |-> s.kind,
                      line |-> s.line, locked |-> (lock = t)]
    /\ UNCHANGED <<Engine, media_title, added>>
    /\ UNCHANGED <<waiting, overlap, terminate_calls, service, config>>
    /\ Recorded

----------------------------------------------------------------------------

Next ==
    \/ AsyncAddedToHass
    \/ AsyncWillRemoveFromHass
    \/ \E l \in Locators : AsyncPlayMedia(l)
    \/ PlayMediaEngineCall
    \/ PlayMediaExcept
    \/ AsyncMediaPlay
    \/ AsyncMediaPause
    \/ AsyncMediaStop
    \/ \E v \in VolumeInputs : HandleCommandVolume(v)
    \/ \E v \in VolumeInputs : ConsoleVolume(v)
    \/ \E m \in BOOLEAN : AsyncMuteVolume(m)
    \/ \E p \in SeekTargets : AsyncMediaSeek(p)
    \/ EngineReportsPosition
    \/ EngineReportsDuration
    \/ EngineReachesEof
    \/ PositionChanged
    \/ DurationChanged
    \/ PauseChanged
    \/ EndOfStream

Spec == Init /\ [][Next]_vars

\* Calls of async_play_media that wait for metadata, and a terminate() that
\* raises.  The volume, mute and seek commands write none of the fields these
\* steps are about and are left out here, so every behaviour below is one of
\* the program with those commands never issued.
NextTasks ==
    \/ AsyncAddedToHass
    \/ AsyncWillRemoveFromHass
    \/ AsyncWillRemoveFromHassTerminateRaises
    \/ \E l \in Locators : AsyncPlayMedia(l)
    \/ \E l \in Locators : AsyncPlayMediaAwaitsMetadata(l)
    \/ \E l \in Locators : AsyncPlayMediaResumes(l)
    \/ PlayMediaEngineCall
    \/ PlayMediaExcept
    \/ AsyncMediaPlay
    \/ AsyncMediaPause
    \/ AsyncMediaStop
    \/ EngineReportsPosition
    \/ EngineReportsDuration
    \/ EngineReachesEof
    \/ PositionChanged
    \/ DurationChanged
    \/ PauseChanged
    \/ EndOfStream

SpecTasks == Init /\ [][NextTasks]_vars

\* Status reads next to playback, with the history of the store kept.  The
\* commands left out are never issued in these behaviours.
NextStatus ==
    \/ AsyncAddedToHass
    \/ \E l \in Locators : AsyncPlayMedia(l)
    \/ PlayMediaEngineCall
    \/ PlayMediaExcept
    \/ AsyncMediaStop
    \/ StatusReadsState
    \/ StatusReadsPosition
    \/ StatusReadsDuration
    \/ EngineReportsPosition
    \/ EngineReportsDuration
    \/ EngineReachesEof
    \/ PositionChanged
    \/ DurationChanged
    \/ EndOfStream

SpecStatus == InitRecording /\ [][NextStatus]_vars

\* The program with the HTTP command handler as its only front-end.  The
\* engine's reports of progress, which no branch of the handler looks at,
\* are left out.
NextHttp ==
    \/ AsyncAddedToHass
    \/ AsyncWillRemoveFromHass
    \/ \E data \in Requests : HandleCommand(data)
    \/ PlayMediaEngineCall
    \/ PlayMediaExcept
    \/ EngineReachesEof
    \/ PositionChanged
    \/ PauseChanged
    \/ EndOfStream

SpecHttp == Init /\ [][NextHttp]_vars

\* The standalone service: main(), PipePlayService, and the HTTP handler
\* and the player they drive.  No step is the framework's call of
\* async_added_to_hass: the service passes hass=None and calls none itself.
NextService ==
    \/ MainStartsService
    \/ ServiceStartsApi
    \/ ServiceStartsZeroconf
    \/ ServiceZeroconfRegistered
    \/ ServiceStartsHa
    \/ ServiceHandlesCommand
    \/ PlayMediaEngineCall
    \/ PlayMediaExcept
    \/ ServiceStops
    \/ ServiceCleansHa
    \/ ServiceHaPublished
    \/ ServiceStopsApi
    \/ ServiceStopsZeroconf
    \/ ServiceStopNotRunning
    \/ MainQuickPlay
    \/ MainInteractive
    \/ MainExits

SpecService == Init /\ [][NextService]_vars

\* One process and its configuration.
NextConfig ==
    \/ ConfigConstructed
    \/ ConfigSet
    \/ ConfigUpdate
    \/ ConfigReset

SpecConfig == Init /\ [][NextConfig]_vars

\* The backend statement by statement: any command, any callback.
NextLock ==
    \/ AsyncAddedToHass
    \/ BeginCommand
    \/ BeginCallback
    \/ \E t \in Threads : Statement(t)

SpecLock == Init /\ [][NextLock]_vars

\* Both threads are scheduled fairly: a thread that can take its next
\* statement again and again does take it, so a thread that waits for the
\* lock gets it when the lock keeps coming free.
NextLockFair ==
    \/ AsyncAddedToHass
    \/ BeginCommandOnce
    \/ BeginCallback
    \/ \E t \in Threads : Statement(t)

SpecLockFair ==
    Init /\ [][NextLockFair]_vars /\ \A t \in Threads : SF_vars(Statement(t))

----------------------------------------------------------------------------
\* Properties

\* C1: current_media is set if and only if state is playing, paused or
\* buffering, in every reachable state.
C1_MediaIffActive ==
    (current_media # None) <=> (state \in {"playing", "paused", "buffering"})

\* C2: the stored volume_level is within [0.0, 1.0] in every reachable state,
\* whatever front-end issued the command.
C2_VolumeWithinRange == InRange(volume)

\* C3: the core set_volume command succeeds if and only if 0 <= v <= 1, and
\* when it succeeds the stored volume equals v.
C3_SetVolumeSucceedsIffInRange ==
    (last.op = "set_volume" /\ last.via = "direct") =>
        /\ (last.res = "ok") <=> InRange(last.v)
        /\ (last.res = "ok") => (volume = last.v)

\* C4: a set_volume command with a value outside [0,1] is rejected before
\* any call on the engine, and leaves every field of the store as it was.
C4_OutOfRangeVolumeRejected ==
    [][(last'.op = "set_volume" /\ ~InRange(last'.v)) =>
          (last'.res = "rejected" /\ Store' = Store /\ Engine' = Engine)]_vars

\* C5: stop() always results in state idle, no current media and position 0,
\* also before the engine is initialized and after cleanup() released it.
C5_StopAlwaysIdle ==
    (last.op = "stop") =>
        (state = "idle" /\ current_media = None /\ position = 0)

\* C6: every change of the state field is a transition of the state table:
\* idle->playing, playing->paused, paused->playing, playing->idle,
\* paused->idle; no other pair (such as idle->paused) occurs.
TableTransitions ==
    { <<"idle", "playing">>, <<"playing", "paused">>, <<"paused", "playing">>,
      <<"playing", "idle">>, <<"paused", "idle">> }

C6_TransitionsFollowTable ==
    [][(state' # state) => (<<state, state'>> \in TableTransitions)]_vars

\* C7: a PositionChanged(v) callback changes only position (to v, when v is
\* a value) and a DurationChanged(v) callback changes only duration: state,
\* current_media, volume, mute and the other of the two are unchanged.
C7_PositionDurationFrame ==
    [][/\ (last'.op = "callback" /\ last'.kind = "time-pos") =>
             /\ UNCHANGED <<state, current_media, duration, volume, muted>>
             /\ position' = IF last'.value = NoValue THEN position
                            ELSE last'.value[1]
       /\ (last'.op = "callback" /\ last'.kind = "duration") =>
             /\ UNCHANGED <<state, current_media, position, volume, muted>>
             /\ duration' = IF last'.value = NoValue THEN duration
                            ELSE last'.value[1]
      ]_vars

\* C7 witness: a duration report was delivered after a position report, while
\* an item is paused.
C7_Witness ==
    /\ last.op = "callback" /\ last.kind = "duration"
    /\ duration = 1 /\ position = 1 /\ state = "paused"

\* C8: play() while the state is not paused is a no-op: no call on the
\* engine, no error, the store as before.
C8_PlayNoOpUnlessPaused ==
    [][(last'.op = "play" /\ state # "paused") =>
          /\ Store' = Store
          /\ Engine' = Engine
          /\ last'.res = "ok" /\ last'.log = "warning"]_vars

\* C8 witness: play() was called while playing, on an engine that a pause()
\* has already paused (the PauseChanged callback is still to come).
C8_Witness ==
    /\ last.op = "play" /\ last.log = "warning"
    /\ state = "playing" /\ mpv_player # None /\ enginePause

\* C9: an EndOfStream(true) callback delivered while playing or paused sets
\* state idle, current_media None and position 0 in that one step, the
\* command thread taking no part.
C9_EndOfStreamClears ==
    [][(/\ last'.op = "callback" /\ last'.kind = "eof-reached"
        /\ last'.value = Some(TRUE)
        /\ state \in {"playing", "paused"}) =>
          /\ state' = "idle" /\ current_media' = None /\ position' = 0
          /\ pc' = pc]_vars

\* C9 witness: EndOfStream(true) has just been delivered for an item that was
\* loaded (its length was reported, its title is still held) and the store
\* is idle.
C9_Witness ==
    /\ last.op = "callback" /\ last.kind = "eof-reached"
    /\ last.value = Some(TRUE)
    /\ state = "idle" /\ current_media = None /\ position = 0
    /\ duration = 1 /\ media_title # None

\* C10: when the engine call of play_media fails, the command ends by
\* raising to its caller with the store in state idle and no current media;
\* the store is never playing with no media reference.
C10_FailedPlayMediaEndsIdle ==
    [][/\ (pc.at = "except" /\ pc' # pc) =>
             /\ pc' = Ready
             /\ last'.op = "play_media" /\ last'.res = "raised"
             /\ state' = "idle" /\ current_media' = None
       /\ (state' = "playing") => (current_media' # None)]_vars

\* C10 witness: a play_media that superseded a loaded item has failed: the
\* engine still holds the earlier item and the store is idle.
C10_Witness ==
    /\ last.op = "play_media" /\ last.res = "raised"
    /\ state = "idle" /\ current_media = None
    /\ mpv_player # None /\ engineMedia # None

\* C11: when the last of several overlapping play_media calls has returned
\* successfully, current_media is the locator of one of the calls and the
\* display metadata belongs to that same locator.
C11_OverlappingCallsLeaveOneLocator ==
    [][(last'.op = "play_media" /\ last'.res = "ok" /\ overlap
            /\ waiting = {}) =>
          (current_media' \in Locators /\ media_title' = current_media')]_vars

\* C12: when play_media(L) has succeeded, from idle or over a loaded item,
\* state is playing, current_media is L and position is 0.
C12_PlayMediaStartsAtZero ==
    (last.op = "play_media" /\ last.res = "ok") =>
        (state = "playing" /\ current_media = last.url /\ position = 0)

\* C13: the scenario, step by step.  play_media(L) on the idle store, its
\* engine call succeeding, gives playing with current_media = L;
\* PauseChanged(true) on that gives paused; set_volume(0.3) on that stores 0.3
\* and keeps paused and L; EndOfStream(true) on that gives idle and no media.
C13_ScenarioTrace ==
    [][/\ (pc = Ready /\ pc'.at = "play" /\ state = "idle"
              /\ current_media = None) =>
            (state' = "playing" /\ current_media' = pc'.url)
       /\ (pc.at = "play" /\ pc' = Ready /\ state = "playing"
              /\ current_media = pc.url) =>
            (last'.res = "ok" /\ state' = "playing"
                /\ current_media' = pc.url)
       /\ (last'.op = "callback" /\ last'.kind = "pause"
              /\ last'.value = Some(TRUE) /\ state = "playing") =>
            (state' = "paused" /\ current_media' = current_media)
       /\ (last'.op = "set_volume" /\ last'.v = 3 /\ last'.res = "ok"
              /\ last'.log = "info" /\ state = "paused") =>
            (volume' = 3 /\ state' = "paused"
                /\ current_media' = current_media)
       /\ (last'.op = "callback" /\ last'.kind = "eof-reached"
              /\ last'.value = Some(TRUE) /\ state = "paused") =>
            (state' = "idle" /\ current_media' = None)]_vars

\* the end of the scenario: paused, volume 0.3, then the end of the stream
C13_Witness ==
    /\ last.op = "callback" /\ last.kind = "eof-reached"
    /\ last.value = Some(TRUE)
    /\ state = "idle" /\ current_media = None
    /\ volume = 3 /\ enginePause /\ media_title # None

\* C14: a backend command issued while there is no engine instance does not
\* return success.
C14_NoEngineMeansNotReady ==
    (/\ mpv_player = None
     /\ last.op \in {"play", "pause", "stop", "set_volume", "set_mute", "seek"}
     /\ (last.op = "play" => last.log = "info")) =>
        (last.res # "ok")

\* C15: terminate() is invoked at most once over all cleanup() calls, once
\* if the engine was initialized and not at all otherwise, and no cleanup()
\* call raises.
C15_CleanupIdempotent ==
    /\ terminate_calls <= 1
    /\ (last.op = "cleanup") =>
          /\ last.res = "ok"
          /\ terminate_calls = IF added THEN 1 ELSE 0

\* C16: when the engine raises in set_volume, set_mute or seek, the command
\* returns normally and the store, with it volume, mute, state, current_media
\* and position, is as before; the command thread is free.
C16_EngineFaultLeavesStore ==
    [][(last'.op \in {"set_volume", "set_mute", "seek"}
            /\ last'.log = "error") =>
          (last'.res = "ok" /\ Store' = Store /\ pc' = Ready)]_vars

\* a set_volume(v) in which the engine raised, with another volume stored
C16_Witness ==
    /\ last.op = "set_volume" /\ last.log = "error"
    /\ volume # last.v /\ state = "playing" /\ mpv_player # None

\* C17 as stated: after a command that failed (a rejected volume, a
\* play_media whose engine call failed) the store is what it was before the
\* command, and the command thread is free.
C17_FailureRestoresStore ==
    [][(last'.op \in {"set_volume", "play_media"}
            /\ last'.res \in {"rejected", "raised"}) =>
          /\ pc' = Ready
          /\ IF last'.op = "play_media"
                THEN state' = pc.was[1] /\ current_media' = pc.was[2]
                ELSE Store' = Store]_vars

\* C17: after a rejected volume command the store is unchanged; after a
\* play_media whose engine call failed the store is idle without media,
\* whatever it held before, and position, duration, volume and mute are
\* what the failing step found; after either the command thread is free
\* for the next command.
C17_FailureLeavesStoreUsable ==
    [][/\ (last'.op = "set_volume" /\ last'.res = "rejected") =>
            (Store' = Store /\ pc' = Ready)
       /\ (last'.op = "play_media" /\ last'.res = "raised") =>
            /\ state' = "idle" /\ current_media' = None
            /\ UNCHANGED <<position, duration, volume, muted>>
            /\ pc' = Ready]_vars

\* play_media('B') has failed over a playing 'A' whose position was known
C17_Witness ==
    /\ last.op = "play_media" /\ last.res = "raised" /\ last.url = "B"
    /\ state = "idle" /\ current_media = None /\ position = 1
    /\ engineMedia = "A" /\ pc = Ready

\* C18: when the store has returned to idle through the stop command or an
\* EndOfStream(true) callback, the title is cleared.
C18_StopAndEofClearTitle ==
    (\/ last.op = "stop"
     \/ /\ last.op = "callback" /\ last.kind = "eof-reached"
        /\ last.value = Some(TRUE)) =>
        (media_title = None)

\* C19: when the engine call of play_media has failed, the title is what it
\* was before the call.
C19_FailedPlayMediaKeepsTitle ==
    [][(last'.op = "play_media" /\ last'.res = "raised") =>
          (media_title' = pc.title)]_vars

\* C20: the tuple a status read returns equals the state, volume, mute,
\* position and duration the store held together at some instant.
C20_StatusIsASnapshot ==
    (last.op = "status" /\ last.res = "ok") => (last.got \in existed)

\* C21: with a subscriber registered, a callback changes the store if and
\* only if it schedules a notification of the subscriber.
C21_OneNotificationPerMutation ==
    [][(last'.op = "callback") =>
          ((Store' # Store) <=> (last'.notify = "scheduled"))]_vars

\* C22: after a notification that raised, the next callback that changes the
\* store still schedules a notification.
C22_FailedNotificationDoesNotStopLater ==
    [][(last.op = "callback" /\ last.notify = "raised"
            /\ last'.op = "callback" /\ Store' # Store) =>
          (last'.notify = "scheduled")]_vars

\* C23: a request that the HTTP handler rejects leads to no call on the
\* media player, and every command that reaches the media player is
\* well-formed: a known command, play_media with a media_id, volume with a
\* level within [0, 1], mute with a flag, seek with a position.
C23_OnlyWellFormedReachTheCore ==
    [][/\ (last'.op \in {"http", "set_volume"}
              /\ last'.res = "rejected") =>
            UNCHANGED <<mpv_player, Store, Engine, media_title, pc>>
       /\ (last'.op = "play_media") => (last'.url \in Locators)
       /\ (last'.op = "set_volume" /\ last'.res = "ok") => InRange(last'.v)
       /\ (last'.op = "set_mute") => (last'.m \in BOOLEAN)
       /\ (last'.op = "seek") => (last'.p \in SeekTargets)
       /\ (last'.op = "http") =>
            \/ last'.data.command \in {"next", "play_media", "volume",
                                        "mute", "seek"}
               /\ last'.data.arg = NoValue
            \/ last'.data = [command |-> "play_media", arg |-> Some("")]
      ]_vars

\* an unknown command was answered while an item was playing
C23_Witness ==
    /\ last.op = "http" /\ last.res = "rejected"
    /\ last.data.command = "next"
    /\ state = "playing" /\ current_media # None /\ mpv_player # None

\* C24: at construction the store is idle without media and its volume is
\* the default volume of the configuration.
C24_InitialVolumeIsConfigured ==
    (last.op = "init") =>
        (state = "idle" /\ current_media = None /\ volume = DefaultVolume)

\* C25: play_media writes nothing to the store before its engine call has
\* returned, and a call whose engine call failed never shows playing with
\* its locator.
C25_StoreWrittenAfterEngineCall ==
    /\ [][(pc = Ready /\ pc'.at = "play") =>
             UNCHANGED <<state, current_media>>]_vars
    /\ [](pc.at = "except" =>
             ~(state = "playing" /\ current_media = pc.url))

\* C26: a thread that schedules a notification, calls the engine or logs
\* does not hold the store lock while it does, and when a handler is
\* through the lock is not left with its thread.
C26_LockOnlyAroundFields ==
    [][/\ (last'.op = "statement"
              /\ last'.kind \in {"notify", "engine", "log"}) =>
            ~last'.locked
       /\ \A t \in Threads : (~Running(t))' => (lock' # t)]_vars

\* the observer of eof-reached has notified after it gave the lock back
C26_Witness ==
    /\ last.op = "statement" /\ last.thread = "engine"
    /\ last.kind = "notify" /\ last.line = 90 /\ ~last.locked
    /\ lock = "loop" /\ state = "idle"

\* C27: every statement that reads or writes a field of the store is
\* executed by a thread that holds the store lock.
C27_FieldsOnlyUnderLock ==
    [][(last'.op = "statement" /\ last'.kind \in {"assign", "read"}) =>
          last'.locked]_vars

\* C28: a PauseChanged(false) delivered while the state is paused moves the
\* state to playing.
C28_UnpauseLeavesPaused ==
    [][(last'.op = "callback" /\ last'.kind = "pause"
            /\ last'.value = Some(FALSE) /\ state = "paused") =>
          (state' = "playing")]_vars

\* C29: a set_volume(v) in which the engine did not raise changes the
\* volume to v and nothing else in the store, a set_mute(b) the mute flag to
\* b and nothing else, with or without an engine instance.
C29_VolumeAndMuteFrame ==
    [][/\ (last'.op = "set_volume" /\ last'.res = "ok"
              /\ last'.log = "info") =>
            /\ volume' = last'.v
            /\ UNCHANGED <<state, current_media, position, duration, muted>>
       /\ (last'.op = "set_mute" /\ last'.log = "info") =>
            /\ muted' = last'.m
            /\ UNCHANGED <<state, current_media, position, duration,
                           volume>>]_vars

\* muted without an engine instance, the volume below full
C29_Witness ==
    /\ last.op = "set_mute" /\ last.log = "info" /\ last.m
    /\ muted /\ mpv_player = None /\ volume = 3 /\ state = "paused"

\* C30: an EndOfStream(true) delivered while the engine holds the item that
\* play_media loaded last, which it has not finished, does not clear that
\* item from the store.
C30_StaleEofKeepsMedia ==
    [][(last'.op = "callback" /\ last'.kind = "eof-reached"
            /\ last'.value = Some(TRUE) /\ pc = Ready
            /\ engineMedia # None /\ current_media = engineMedia) =>
          (current_media' = current_media
              /\ state' \in {"playing", "paused"})]_vars


\* C31: once the callbacks are drained and no command is under way, a store
\* that reports playing belongs to an engine whose pause flag is false.
C31_PlayingMeansEngineUnpaused ==
    (mpv_player # None /\ pending = <<>> /\ pc = Ready /\ state = "playing")
        => ~enginePause


\* C32: the store's state is idle, playing or paused in every reachable
\* state, so the entity never reports BUFFERING and the mapping never has
\* to fall back to its default.
C32_NeverBuffering ==
    /\ state \in {"idle", "playing", "paused"}
    /\ state \in DOMAIN state_mapping
    /\ PlayerState # "BUFFERING"

\* a store that was playing and that a callback has set to paused
C32_Witness ==
    /\ last.op = "callback" /\ last.kind = "pause"
    /\ state = "paused" /\ PlayerState = "PAUSED" /\ current_media # None


C34_CommandsFindEngine ==
    [][(service.at # "start"
          /\ last'.op \in {"play_media", "pause", "stop", "set_volume"}
          /\ last'.res # "rejected") =>
          (mpv_player # None /\ added)]_vars

\* C35: the play_media of quick-play mode and the console commands of
\* interactive mode are dispatched while _running is true and the media
\* player's backend has not been cleaned up.
C35_DispatchedWhileRunning ==
    [][(service.at = "returned" /\ service.mode \in {"play", "interactive"}
          /\ last'.op \in {"play_media", "play", "pause", "stop",
                            "set_volume"}) =>
          (service.running /\ service.media_player # "cleaned")]_vars

\* C36: no HTTP command reaches the media player after its backend has
\* been cleaned up: by then the API server has stopped accepting.
C36_NoCommandAfterCleanup ==
    [][(service.at \in Suspended /\ service.api_server = "started"
          /\ last'.op \notin {"service", "http"}) =>
          service.media_player # "cleaned"]_vars

\* C37: when stop() returns, the cleanup of every component that exists has
\* been attempted, whether or not an earlier one raised, and a stop() on a
\* service that is not running changes nothing.
C37_StopCleansWhatWasCreated ==
    /\ [](last \in {[op |-> "service", step |-> "stop_returns"],
                      [op |-> "service", step |-> "stop_skipped"]} =>
              /\ service.media_player \in {"none", "cleaned"}
              /\ service.ha_integration \in {"none", "cleaned"}
              /\ service.api_server \in {"none", "stopped", "raised"}
              /\ service.zeroconf_service \in {"none", "stopped"})
    /\ [][(last'.op = "service" /\ last'.step = "stop_skipped") =>
            UNCHANGED <<service, mpv_player, Store, Engine>>]_vars


\* C38: a thread that holds the store lock is inside a handler and has only
\* assignments, reads and the release before it (no acquisition, no engine
\* call, nothing that waits), and under fair scheduling every handler that
\* was started runs to its end, the lock being free again by then (C26).
C38_LockIsGivenBack ==
    /\ [](\A t \in Threads :
              lock = t =>
                 /\ Running(t)
                 /\ th[t].code[th[t].at].kind \in {"assign", "read", "release"})
    /\ \A t \in Threads : Running(t) ~> ~Running(t)

\* the engine thread waits for the lock while a command holds it
C38_Witness ==
    /\ lock = "loop"
    /\ Running("engine")
    /\ th["engine"].code[th["engine"].at].kind = "acquire"
    /\ last.op = "statement" /\ last.thread = "loop"


\* C39: after reset_to_defaults() every key reads as the package ships it,
\* whatever set() and update() did before, and so does a Config that is
\* constructed next.
C39_ResetRestoresShipped ==
    [][/\ (last'.op = "reset_to_defaults") => AtDefaults'
       /\ (last.op = "reset_to_defaults" /\ last'.op = "Config") =>
             AtDefaults']_vars

=============================================================================
